---- MODULE Spec2Model ----
(***************************************************************************)
(* ICH consciousness-recovery calculator: the three Streamlit scripts      *)
(*   final  = src/ich_recovery_calculator_app_SCI_final.py                 *)
(*   static = src/ich_recovery_calculator_app_SCI_with_static_mode.py      *)
(*   cloud  = src/ich_recovery_calculator_app_cloud.py                     *)
(* Lines 10-86 of final and static are the same text (coefficients,        *)
(* reference tables, sigmoid, predict_probability, range_flag, risk_band), *)
(* so one definition models both and is mapped to the final file.          *)
(*                                                                         *)
(* Numbers.  A Python float is a record [k, v]: k = "fin" with v a         *)
(* fixed-point integer, k = "nan", or k = "inf" with v the sign.  The      *)
(* fixed-point units are                                                   *)
(*   observation values    0.1      (67 years is 670, 9.4 mmol/L is 94)    *)
(*   coefficients, linear predictor, table entries   0.000001              *)
(*   exp results and probabilities                   0.0001                *)
(* A raised exception is a record whose k is the exception's name.         *)
(***************************************************************************)
EXTENDS Integers, Sequences, FiniteSets, TLC

VARIABLES
    app,              \* which script this process runs: "final", "static", "cloud"
    G,                \* the module's globals: coefficients and reference tables
    session_state,    \* Streamlit's widget store (st.session_state), widget -> value
    publication_view, \* static: the st.toggle at line 109
    inp,              \* the seven values the script bound in its last run
    warns,            \* the range warnings the last run rendered, in order
    out,              \* the last run's prediction: [p, lp], or [err] when it raised
    fn, arg, ret      \* the last direct call of one of the module's functions

vars == <<app, G, session_state, publication_view, inp, warns, out, fn, arg, ret>>

-----------------------------------------------------------------------------
(* Python floats *)

F(n) == [k |-> "fin", v |-> n]
NaN == [k |-> "nan", v |-> 0]
PInf == [k |-> "inf", v |-> 1]
NInf == [k |-> "inf", v |-> -1]
Raise(name) == [k |-> name, v |-> 0]
IsFloat(a) == a.k \in {"fin", "nan", "inf"}
IsFinite(a) == a.k = "fin"

Sign(n) == IF n > 0 THEN 1 ELSE IF n < 0 THEN -1 ELSE 0

\* an observation value (unit 0.1) in the unit of the tables (0.000001)
Micro(v) == v * 100000

\* value < bound, value > bound: value a float in 0.1, bound a finite table
\* entry in 0.000001.  Every comparison with NaN is False.
FLt(a, bound) ==
    CASE a.k = "fin" -> Micro(a.v) < bound
      [] a.k = "inf" -> a.v < 0
      [] OTHER -> FALSE

FGt(a, bound) ==
    CASE a.k = "fin" -> Micro(a.v) > bound
      [] a.k = "inf" -> a.v > 0
      [] OTHER -> FALSE

\* c * a: c a finite coefficient in 0.000001, a an observation value in 0.1;
\* the product in 0.000001, rounded to the nearest unit.
FMul(c, a) ==
    CASE a.k = "fin" -> F(c * (a.v \div 10) + ((c * (a.v % 10) + 5) \div 10))
      [] a.k = "inf" -> IF c = 0 THEN NaN ELSE [k |-> "inf", v |-> Sign(c) * a.v]
      [] OTHER -> NaN

\* a + b, both in 0.000001
FAdd(a, b) ==
    CASE a.k = "nan" \/ b.k = "nan" -> NaN
      [] a.k = "inf" /\ b.k = "inf" -> IF a.v = b.v THEN a ELSE NaN
      [] a.k = "inf" -> a
      [] b.k = "inf" -> b
      [] OTHER -> F(a.v + b.v)

FNeg(a) == IF a.k = "nan" THEN NaN ELSE [k |-> a.k, v |-> -a.v]

\* float(x) of a number keeps its value; int(x) truncates toward zero and
\* raises on NaN and on an infinity.  Values are in 0.1.
float(a) == a

int(a) ==
    CASE a.k = "fin" ->
           IF a.v >= 0 THEN F((a.v \div 10) * 10) ELSE F(-(((-a.v) \div 10) * 10))
      [] a.k = "nan" -> Raise("ValueError")
      [] OTHER -> Raise("OverflowError")

-----------------------------------------------------------------------------
(* math.exp and the sigmoid *)

\* the float 1.0 in the unit of exp results and probabilities
ONE == 10000

\* math.exp raises OverflowError when its argument exceeds ln(DBL_MAX) =
\* 709.782712893384 (unit 0.000001, rounded down)
EXP_MAX == 709782712

\* the largest exp result the fixed-point unit carries; larger results, up to
\* the OverflowError threshold, are held at this value
EXP_SAT == 1500000000

RECURSIVE Pow2(_)
Pow2(n) == IF n = 0 THEN 1 ELSE 2 * Pow2(n - 1)

\* e^r for 0 <= r < ln 2 (r in 0.000001), in units of 0.0001: the Taylor series,
\* every term rounded to the nearest unit
ExpFrac(r) ==
    LET q  == r \div 100
        t1 == q
        t2 == (t1 * q + 10000) \div 20000
        t3 == (t2 * q + 15000) \div 30000
        t4 == (t3 * q + 20000) \div 40000
        t5 == (t4 * q + 25000) \div 50000
        t6 == (t5 * q + 30000) \div 60000
    IN  ONE + t1 + t2 + t3 + t4 + t5 + t6

\* e^y for finite y >= 0 (y in 0.000001), in units of 0.0001: e^y = 2^n * e^r
\* with y = n * ln 2 + r
ExpPos(y) ==
    LET n == y \div 693147
        r == y % 693147
    IN  IF n > 16 THEN EXP_SAT ELSE Pow2(n) * ExpFrac(r)

\* math.exp(y)
math_exp(y) ==
    CASE y.k = "nan" -> NaN
      [] y.k = "inf" -> IF y.v > 0 THEN PInf ELSE F(0)
      [] y.v > EXP_MAX -> Raise("OverflowError")
      [] y.v >= 0 -> F(ExpPos(y.v))
      [] OTHER -> F((ONE * ONE + (ExpPos(-y.v) \div 2)) \div ExpPos(-y.v))

\* 1.0 / (1.0 + e), e an exp result
Recip1p(e) ==
    CASE e.k = "nan" -> NaN
      [] e.k = "inf" -> F(0)
      [] OTHER -> F((ONE * ONE + ((ONE + e.v) \div 2)) \div (ONE + e.v))

\* sigmoid with the two saturated values of the handler exchanged
sigmoid_exchanged(x) ==
    LET e == math_exp(FNeg(x))
    IN  IF e.k = "OverflowError"
        THEN (IF x.v < 0 THEN F(ONE) ELSE F(0))
        ELSE Recip1p(e)

sigmoid(x) ==
    LET e == math_exp(FNeg(x))
    IN  IF e.k = "OverflowError"
        THEN (IF x.v < 0 THEN F(0) ELSE F(ONE))
        ELSE Recip1p(e)

-----------------------------------------------------------------------------
(* Module globals of final and static (lines 17-47) *)

B0 == 5706245
B_AGE == -116444
B_GCSP == 734351
B_VOL == 5742
B_IVH == -208413
B_VENT == -1470830
B_MLS == -41931
B_GLU == -166805

\* DEV_MINMAX without the "vent" entry, as DEV_P1P99 is written
DEV_MINMAX_no_vent ==
    [age    |-> <<16000000, 96000000>>,
     gcsp   |-> <<1000000, 8000000>>,
     volume |-> <<0, 200000000>>,
     ivh    |-> <<0, 4000000>>,
     mls    |-> <<0, 30000000>>,
     glu    |-> <<2000000, 30000000>>]

DEV_MINMAX ==
    [age    |-> <<16000000, 96000000>>,
     gcsp   |-> <<1000000, 8000000>>,
     volume |-> <<0, 200000000>>,
     ivh    |-> <<0, 4000000>>,
     vent   |-> <<0, 1000000>>,
     mls    |-> <<0, 30000000>>,
     glu    |-> <<2000000, 30000000>>]

\* DEV_P1P99 with a midline-shift P99 of 40.0, above the cohort maximum 30.0
DEV_P1P99_wide ==
    [age    |-> <<25000000, 88000000>>,
     gcsp   |-> <<1000000, 8000000>>,
     volume |-> <<10000000, 120000000>>,
     ivh    |-> <<0, 4000000>>,
     mls    |-> <<0, 40000000>>,
     glu    |-> <<4000000, 20000000>>]

DEV_P1P99 ==
    [age    |-> <<25000000, 88000000>>,
     gcsp   |-> <<1000000, 8000000>>,
     volume |-> <<10000000, 120000000>>,
     ivh    |-> <<0, 4000000>>,
     mls    |-> <<0, 20000000>>,
     glu    |-> <<4000000, 20000000>>]

final_globals ==
    [B0 |-> B0, B_AGE |-> B_AGE, B_GCSP |-> B_GCSP, B_VOL |-> B_VOL,
     B_IVH |-> B_IVH, B_VENT |-> B_VENT, B_MLS |-> B_MLS, B_GLU |-> B_GLU,
     DEV_MINMAX |-> DEV_MINMAX, DEV_P1P99 |-> DEV_P1P99]

(* Module globals of cloud (lines 34-44 and 79-86).  An entry written with *)
(* more than six decimals (173.4671222, 26.7790338, 143.13293718000008,    *)
(* 20.62500000000001, 19.968500000000006, median 56.41256875) is cut to    *)
(* six: no multiple of 0.1 lies between the cut and the written entry, so  *)
(* every comparison with an observation value is the written one.          *)
RANGES ==
    [Age |-> [max |-> 89000000, median |-> 57000000, min |-> 17000000,
              p1 |-> 32300000, p99 |-> 84000000],
     Blood_glucose |-> [max |-> 30300000, median |-> 8800000, min |-> 1900000,
                        p1 |-> 5015000, p99 |-> 20625000],
     GCS_P |-> [max |-> 8000000, median |-> 6000000, min |-> 1000000,
                p1 |-> 1000000, p99 |-> 8000000],
     Hematoma_volume |-> [max |-> 173467122, median |-> 56412568, min |-> 25063675,
                          p1 |-> 26779033, p99 |-> 143132937],
     IVH_grade |-> [max |-> 4000000, median |-> 1000000, min |-> 0,
                    p1 |-> 0, p99 |-> 4000000],
     Midline_shift |-> [max |-> 22800000, median |-> 10200000, min |-> 0,
                        p1 |-> 3500000, p99 |-> 19968500],
     Ventricle_enlargement |-> [max |-> 1000000, median |-> 0, min |-> 0,
                                p1 |-> 0, p99 |-> 1000000]]

cloud_globals ==
    [RANGES |-> RANGES,
     B0 |-> 5706245, B_AGE |-> -116444, B_GCSP |-> 734351, B_HEM |-> 5742,
     B_IVH |-> -208413, B_VENT |-> -1470830, B_MLS |-> -41931, B_GLU |-> -166805]

Globals(a) == IF a = "cloud" THEN cloud_globals ELSE final_globals

-----------------------------------------------------------------------------
(* Helpers of final and static (lines 58-86) *)

\* predict_probability with B_MLS on the glucose and B_GLU on the midline shift
predict_probability_swapped(g, age, gcsp, volume, ivh_grade, vent_enlarged, midline_shift, glucose) ==
    LET lp == FAdd(FAdd(FAdd(FAdd(FAdd(FAdd(FAdd(
                  F(g.B0),
                  FMul(g.B_AGE, age)),
                  FMul(g.B_GCSP, gcsp)),
                  FMul(g.B_VOL, volume)),
                  FMul(g.B_IVH, ivh_grade)),
                  FMul(g.B_VENT, vent_enlarged)),
                  FMul(g.B_MLS, glucose)),
                  FMul(g.B_GLU, midline_shift))
    IN  <<sigmoid(lp), lp>>

\* returns (sigmoid(lp), lp); Python adds left to right
predict_probability(g, age, gcsp, volume, ivh_grade, vent_enlarged, midline_shift, glucose) ==
    LET lp == FAdd(FAdd(FAdd(FAdd(FAdd(FAdd(FAdd(
                  F(g.B0),
                  FMul(g.B_AGE, age)),
                  FMul(g.B_GCSP, gcsp)),
                  FMul(g.B_VOL, volume)),
                  FMul(g.B_IVH, ivh_grade)),
                  FMul(g.B_VENT, vent_enlarged)),
                  FMul(g.B_MLS, midline_shift)),
                  FMul(g.B_GLU, glucose))
    IN  <<sigmoid(lp), lp>>

\* the range range_flag reads for key (lines 72 and 75): DEV_MINMAX[key], and
\* DEV_P1P99.get(key, (mn, mx))
ReferenceRange(g, key) ==
    LET mn == g.DEV_MINMAX[key][1]
        mx == g.DEV_MINMAX[key][2]
        pp == IF key \in DOMAIN g.DEV_P1P99 THEN g.DEV_P1P99[key] ELSE <<mn, mx>>
    IN  [min |-> mn, max |-> mx, p1 |-> pp[1], p99 |-> pp[2]]

\* range_flag testing p1/p99 before min/max
range_flag_p1_first(g, value, key) ==
    IF key \notin DOMAIN g.DEV_MINMAX THEN "KeyError"
    ELSE LET r == ReferenceRange(g, key)
         IN  IF FLt(value, r.p1) \/ FGt(value, r.p99) THEN "yellow"
             ELSE IF FLt(value, r.min) \/ FGt(value, r.max) THEN "red"
             ELSE "None"

\* range_flag with <= and >= in the min/max test
range_flag_inclusive(g, value, key) ==
    IF key \notin DOMAIN g.DEV_MINMAX THEN "KeyError"
    ELSE LET r == ReferenceRange(g, key)
         IN  IF ~FGt(value, r.min) \/ ~FLt(value, r.max) THEN "red"
             ELSE IF FLt(value, r.p1) \/ FGt(value, r.p99) THEN "yellow"
             ELSE "None"

\* "red", "yellow" or "None"; "KeyError" when DEV_MINMAX[key] raises
range_flag(g, value, key) ==
    IF key \notin DOMAIN g.DEV_MINMAX THEN "KeyError"
    ELSE LET r == ReferenceRange(g, key)
         IN  IF FLt(value, r.min) \/ FGt(value, r.max) THEN "red"
             ELSE IF FLt(value, r.p1) \/ FGt(value, r.p99) THEN "yellow"
             ELSE "None"

\* risk_band with <= in its two tests
risk_band_inclusive(p) ==
    IF p.k = "fin" /\ p.v <= 2000 THEN "Low"
    ELSE IF p.k = "fin" /\ p.v <= 5000 THEN "Intermediate"
    ELSE "High"

\* p a probability in 0.0001; a comparison with NaN is False
risk_band(p) ==
    IF p.k = "fin" /\ p.v < 2000 THEN "Low"
    ELSE IF p.k = "fin" /\ p.v < 5000 THEN "Intermediate"
    ELSE "High"

-----------------------------------------------------------------------------
(* cloud: warn_out_of_range (lines 46-51) and the prediction block (88-113) *)

\* what the call renders: "error" (st.error), "warning" (st.warning) or "None";
\* "KeyError" when RANGES[name] or one of its four entries is missing
warn_out_of_range(g, name, value) ==
    IF name \notin DOMAIN g.RANGES THEN "KeyError"
    ELSE LET r == g.RANGES[name]
         IN  IF ~({"min", "max"} \subseteq DOMAIN r) THEN "KeyError"
             ELSE IF FLt(value, r.min) \/ FGt(value, r.max) THEN "error"
             ELSE IF ~({"p1", "p99"} \subseteq DOMAIN r) THEN "KeyError"
             ELSE IF FLt(value, r.p1) \/ FGt(value, r.p99) THEN "warning"
             ELSE "None"

cloud_logit(g, age, gcs_p, hematoma_vol, ivh_grade, vent_enl, mls, glu) ==
    FAdd(FAdd(FAdd(FAdd(FAdd(FAdd(FAdd(
        F(g.B0),
        FMul(g.B_AGE, float(age))),
        FMul(g.B_GCSP, float(gcs_p))),
        FMul(g.B_HEM, float(hematoma_vol))),
        FMul(g.B_IVH, float(ivh_grade))),
        FMul(g.B_VENT, float(vent_enl))),
        FMul(g.B_MLS, float(mls))),
        FMul(g.B_GLU, float(glu)))

\* p = 1 / (1 + math.exp(-logit)): no handler, an OverflowError propagates
cloud_p(logit) ==
    LET e == math_exp(FNeg(logit))
    IN  IF e.k = "OverflowError" THEN e ELSE Recip1p(e)

\* cloud 105-113: the if / elif / else that binds band
cloud_band(p) ==
    IF p.k = "fin" /\ p.v >= 7000 THEN "higher"
    ELSE IF p.k = "fin" /\ p.v >= 4000 THEN "middle"
    ELSE "lower"

-----------------------------------------------------------------------------
(* The scripts.  Streamlit runs the whole script once when the page loads  *)
(* and again after every widget change; each run executes the module's     *)
(* top-level assignments anew.                                             *)

Apps == {"final", "static", "cloud"}

\* the loop order of the warnings (final 152-160, static 215-223) and the order
\* of the warn_out_of_range calls (cloud 70-76)
KEYS == <<"age", "gcsp", "volume", "ivh", "vent", "mls", "glu">>
NAMES == <<"Age", "GCS_P", "Hematoma_volume", "IVH_grade", "Ventricle_enlargement",
           "Midline_shift", "Blood_glucose">>
WidgetKeys(a) == IF a = "cloud" THEN NAMES ELSE KEYS

\* the value= of the seven widgets, unit 0.1: final 135-148, static 160-166,
\* and cloud 56-66, which takes the medians of RANGES (56.41256875 mL is 56.4 on
\* the 0.1 grid)
final_defaults == <<670, 60, 400, 20, 0, 80, 90>>
static_defaults == <<670, 60, 400, 20, 0, 100, 94>>
cloud_defaults == [i \in 1..7 |-> RANGES[NAMES[i]].median \div 100000]

Defaults(a) ==
    CASE a = "final" -> final_defaults
      [] a = "static" -> static_defaults
      [] OTHER -> cloud_defaults

\* values a user enters besides the default, all inside the widgets' limits of
\* the three scripts
Entered == <<{160, 1200}, {10}, {3000}, {0}, {10}, {250}, {600}>>
Options(a, i) == {Defaults(a)[i]} \cup Entered[i]

NoResult(e) == [err |-> e, p |-> Raise(e), lp |-> Raise(e), band |-> "None"]

\* the loop leaving at the first "red"
RECURSIVE BuildWarns_break(_, _, _, _)
BuildWarns_break(g, v, from, acc) ==
    IF from > 7 THEN acc
    ELSE LET f == range_flag(g, v[from], KEYS[from])
         IN  IF f = "KeyError" THEN <<"KeyError">>
             ELSE IF f = "None" THEN BuildWarns_break(g, v, from + 1, acc)
             ELSE IF f = "red" THEN Append(acc, <<f, KEYS[from]>>)
             ELSE BuildWarns_break(g, v, from + 1, Append(acc, <<f, KEYS[from]>>))

\* final 151-167, static 214-230: the warnings built for values v[from..7]
\* appended to acc; "KeyError" when range_flag raises
RECURSIVE BuildWarns(_, _, _, _)
BuildWarns(g, v, from, acc) ==
    IF from > 7 THEN acc
    ELSE LET f == range_flag(g, v[from], KEYS[from])
         IN  IF f = "KeyError" THEN <<"KeyError">>
             ELSE IF f = "None" THEN BuildWarns(g, v, from + 1, acc)
             ELSE BuildWarns(g, v, from + 1, Append(acc, <<f, KEYS[from]>>))

Failed(w) == w = <<"KeyError">>

\* final 133-187
final_run(ss) ==
    LET g == Globals("final")
        v == [i \in 1..7 |-> ss[KEYS[i]]]
        w == BuildWarns(g, v, 1, <<>>)
        r == predict_probability(g, v[1], v[2], v[3], v[4], v[5], v[6], v[7])
    IN  [G |-> g, session_state |-> ss, inp |-> v,
         warns |-> IF Failed(w) THEN <<>> ELSE w,
         out |-> IF Failed(w) THEN NoResult("KeyError")
                 ELSE [err |-> "None", p |-> r[1], lp |-> r[2], band |-> risk_band(r[1])]]

\* static 154-157, over the seven keys: a key not in st.session_state gets its
\* demonstration default
get_defaults(ss) ==
    [k \in {KEYS[i] : i \in 1..7} |->
        IF k \in DOMAIN ss THEN ss[k]
        ELSE F(static_defaults[CHOOSE i \in 1..7 : KEYS[i] = k])]

\* static 109-256.  A widget created with key= returns st.session_state[key].
\* Streamlit drops the state of a keyed widget at the end of a run that did not
\* render it, so after a publication run only the entries that run itself
\* assigned are left.
static_run(ss, pv) ==
    LET g == Globals("static")
        d == get_defaults(ss)
        v == IF pv
             THEN <<int(d["age"]), int(d["gcsp"]), float(d["volume"]), int(d["ivh"]),
                    int(d["vent"]), float(d["mls"]), float(d["glu"])>>
             ELSE [i \in 1..7 |-> d[KEYS[i]]]
        w == IF pv THEN <<>> ELSE BuildWarns(g, v, 1, <<>>)
        r == predict_probability(g, v[1], v[2], v[3], v[4], v[5], v[6], v[7])
    IN  [G |-> g,
         session_state |-> IF pv THEN [k \in (DOMAIN d) \ (DOMAIN ss) |-> d[k]] ELSE d,
         inp |-> v,
         warns |-> IF Failed(w) THEN <<>> ELSE w,
         out |-> IF Failed(w) THEN NoResult("KeyError")
                 ELSE [err |-> "None", p |-> r[1], lp |-> r[2],
                       band |-> IF pv THEN "None" ELSE risk_band(r[1])]]

\* cloud 70-76: each call renders at once, so the warnings rendered before a
\* KeyError stay on the page
RECURSIVE CloudWarns(_, _, _, _)
CloudWarns(g, v, from, acc) ==
    IF from > 7 THEN acc
    ELSE LET f == warn_out_of_range(g, NAMES[from], float(v[from]))
         IN  IF f = "KeyError" THEN Append(acc, <<"KeyError", NAMES[from]>>)
             ELSE IF f = "None" THEN CloudWarns(g, v, from + 1, acc)
             ELSE CloudWarns(g, v, from + 1, Append(acc, <<f, NAMES[from]>>))

CloudFailed(w) == Len(w) > 0 /\ w[Len(w)][1] = "KeyError"

\* cloud 88-113 for the seven values v
cloud_prediction(g, v) ==
    LET logit == cloud_logit(g, v[1], v[2], v[3], v[4], v[5], v[6], v[7])
        p == cloud_p(logit)
    IN  IF p.k = "OverflowError" THEN NoResult("OverflowError")
        ELSE [err |-> "None", p |-> p, lp |-> logit, band |-> cloud_band(p)]

\* cloud 56-113
cloud_run(ss) ==
    LET g == Globals("cloud")
        v == [i \in 1..7 |-> ss[NAMES[i]]]
        w == CloudWarns(g, v, 1, <<>>)
    IN  [G |-> g, session_state |-> ss, inp |-> v,
         warns |-> IF CloudFailed(w) THEN SubSeq(w, 1, Len(w) - 1) ELSE w,
         out |-> IF CloudFailed(w) THEN NoResult("KeyError") ELSE cloud_prediction(g, v)]

RunScript(a, ss, pv) ==
    CASE a = "final" -> final_run(ss)
      [] a = "static" -> static_run(ss, pv)
      [] OTHER -> cloud_run(ss)

\* the widgets' values before the first run: final and cloud widgets start at
\* value=; static has nothing in st.session_state yet
FirstState(a) ==
    IF a = "static" THEN <<>>
    ELSE [k \in {WidgetKeys(a)[i] : i \in 1..7} |->
            F(Defaults(a)[CHOOSE i \in 1..7 : WidgetKeys(a)[i] = k])]

Rendered(r, a, pv) ==
    /\ app' = a
    /\ publication_view' = pv
    /\ G' = r.G
    /\ session_state' = r.session_state
    /\ inp' = r.inp
    /\ warns' = r.warns
    /\ out' = r.out

\* the page after it loads
Init ==
    /\ app \in Apps
    /\ publication_view = FALSE
    /\ LET r == RunScript(app, FirstState(app), FALSE)
       IN  /\ G = r.G
           /\ session_state = r.session_state
           /\ inp = r.inp
           /\ warns = r.warns
           /\ out = r.out
    /\ fn = "none"
    /\ arg = <<>>
    /\ ret = "none"

\* the user sets widget i to value n; the script runs again
Edit(i, n) ==
    /\ ~publication_view
    /\ n \in Options(app, i)
    /\ Rendered(RunScript(app, [session_state EXCEPT ![WidgetKeys(app)[i]] = F(n)],
                          publication_view),
                app, publication_view)
    /\ UNCHANGED <<fn, arg, ret>>

\* static 109: the user flips the publication toggle; the script runs again
Toggle ==
    /\ app = "static"
    /\ Rendered(RunScript(app, session_state, ~publication_view), app, ~publication_view)
    /\ UNCHANGED <<fn, arg, ret>>

Next ==
    \/ \E i \in 1..7 : \E n \in Options(app, i) : Edit(i, n)
    \/ Toggle

Spec == Init /\ [][Next]_vars

-----------------------------------------------------------------------------
(* Direct calls of the module's functions, on arguments that no widget     *)
(* limits.  The functions read the globals G of the imported module.       *)

\* observation values are taken within Near tenths of every table entry
Near == 1
\* sigmoid arguments run over the hundreds from -XN * 100 to XN * 100
XN == 8
\* an age (unit 0.1) large enough for the linear predictor to pass -709.78
BigAge == 62000

Thresholds(a) ==
    IF a = "cloud"
    THEN {RANGES[n][f] : n \in DOMAIN RANGES, f \in {"min", "max", "p1", "p99"}}
    ELSE {DEV_MINMAX[k][j] : k \in DOMAIN DEV_MINMAX, j \in 1..2}
         \cup {DEV_P1P99[k][j] : k \in DOMAIN DEV_P1P99, j \in 1..2}

TestValues(a) ==
    {F((t \div 100000) + d) : t \in Thresholds(a), d \in (-Near)..(Near + 1)}
    \cup {F(500), NaN, PInf, NInf}

XS ==
    {F(i * 100000000) : i \in (-XN)..XN}
    \cup {F(s * d) : s \in {-1, 1},
                     d \in {1, 286764, 1000000, 9000000, 9210000, 11783499, 11783500,
                            709000000, 709782712, 709782713}}
    \cup {NaN, PInf, NInf}

ObsArgs ==
    {F(670), F(0), F(BigAge), NaN, PInf, NInf}
    \X {F(60), F(10)} \X {F(400), F(25)} \X {F(20), F(0)} \X {F(0), F(10)}
    \X {F(80), F(5)} \X {F(90), F(94)}

Called(f, a, r) ==
    /\ fn' = f
    /\ arg' = a
    /\ ret' = r
    /\ UNCHANGED <<app, G, session_state, publication_view, inp, warns, out>>

Call_sigmoid(x) ==
    /\ app # "cloud"
    /\ Called("sigmoid", <<x>>, sigmoid(x))

\* a call that also rebinds the global B0 to the linear predictor it computed
Call_predict_probability_rebinding(o) ==
    /\ app # "cloud"
    /\ LET r == predict_probability(G, o[1], o[2], o[3], o[4], o[5], o[6], o[7])
       IN  /\ fn' = "predict_probability"
           /\ arg' = o
           /\ ret' = r
           /\ G' = IF IsFinite(r[2]) THEN [G EXCEPT !.B0 = r[2].v] ELSE G
    /\ UNCHANGED <<app, session_state, publication_view, inp, warns, out>>

Call_predict_probability(o) ==
    /\ app # "cloud"
    /\ Called("predict_probability", o,
              predict_probability(G, o[1], o[2], o[3], o[4], o[5], o[6], o[7]))

Call_range_flag(value, key) ==
    /\ app # "cloud"
    /\ Called("range_flag", <<value, key>>, range_flag(G, value, key))

Call_warn_out_of_range(name, value) ==
    /\ app = "cloud"
    /\ Called("warn_out_of_range", <<name, value>>, warn_out_of_range(G, name, value))

\* cloud 88-98 evaluated for an observation o: (p, logit)
Eval_cloud_prediction(o) ==
    /\ app = "cloud"
    /\ LET logit == cloud_logit(G, o[1], o[2], o[3], o[4], o[5], o[6], o[7])
       IN  Called("cloud_prediction", o, <<cloud_p(logit), logit>>)

\* probabilities (unit 0.0001) within Near of the thresholds of both schemes,
\* the two ends of [0, 1], and NaN
PS ==
    {F(t + d) : t \in {2000, 4000, 5000, 7000}, d \in (-Near)..Near}
    \cup {F(0), F(1), F(3000), F(ONE - 1), F(ONE), NaN}

Call_risk_band(p) ==
    /\ app # "cloud"
    /\ Called("risk_band", <<p>>, risk_band(p))

\* cloud 105-113 evaluated for a probability p: the band bound
Eval_cloud_band(p) ==
    /\ app = "cloud"
    /\ Called("cloud_band", <<p>>, cloud_band(p))

FnNext ==
    \/ \E x \in XS : Call_sigmoid(x)
    \/ \E o \in ObsArgs : Call_predict_probability(o)
    \/ \E i \in 1..7 : \E value \in TestValues(app) : Call_range_flag(value, KEYS[i])
    \/ \E i \in 1..7 : \E value \in TestValues(app) : Call_warn_out_of_range(NAMES[i], value)
    \/ \E o \in ObsArgs : Eval_cloud_prediction(o)
    \/ \E p \in PS : Call_risk_band(p)
    \/ \E p \in PS : Eval_cloud_band(p)

FnSpec == Init /\ [][FnNext]_vars

-----------------------------------------------------------------------------
(* Claims *)

\* the classification the specification describes, on plain numbers
Classify(v, r) ==
    IF v < r.min \/ v > r.max THEN "Extrapolation"
    ELSE IF v < r.p1 \/ v > r.p99 THEN "Caution"
    ELSE "None"

FlagOf(c) == CASE c = "Extrapolation" -> "red" [] c = "Caution" -> "yellow" [] OTHER -> "None"
LevelOf(c) == CASE c = "Extrapolation" -> "error" [] c = "Caution" -> "warning" [] OTHER -> "None"

\* the range and the finite value of the last classifier call
IsClassifierCall ==
    \/ fn = "range_flag" /\ IsFinite(arg[1])
    \/ fn = "warn_out_of_range" /\ IsFinite(arg[2])
CallRange == IF fn = "range_flag" THEN ReferenceRange(Globals(app), arg[2]) ELSE RANGES[arg[1]]
CallValue == IF fn = "range_flag" THEN Micro(arg[1].v) ELSE Micro(arg[2].v)
CallClass ==
    CASE ret \in {"red", "error"} -> "Extrapolation"
      [] ret \in {"yellow", "warning"} -> "Caution"
      [] OTHER -> ret

\* C1: for every finite value and every reference range, range_flag and
\* warn_out_of_range return Extrapolation (red / error) if value < min or
\* value > max, otherwise Caution (yellow / warning) if value < p1 or
\* value > p99, otherwise None; the min/max test comes first.
C1_RangeClassifier ==
    /\ (fn = "range_flag" /\ IsFinite(arg[1]))
          => ret = FlagOf(Classify(CallValue, CallRange))
    /\ (fn = "warn_out_of_range" /\ IsFinite(arg[2]))
          => ret = LevelOf(Classify(CallValue, CallRange))

\* a value below min and below p1 is Extrapolation, not Caution
C1_Witness == fn = "range_flag" /\ arg = <<F(159), "age">> /\ ret = "red"

\* C2 as stated: a value equal to min, max, p1 or p99 of its range is
\* classified None.
C2_BoundaryNeverFlagged ==
    (IsClassifierCall
       /\ CallValue \in {CallRange.min, CallRange.max, CallRange.p1, CallRange.p99})
      => CallClass = "None"

\* C2 amended: a value equal to min or max is never Extrapolation, and is
\* Caution exactly when it lies outside [p1, p99] (min < p1, or max > p99); a
\* value equal to p1 or p99 is None.  With {min 16, max 96, p1 25, p99 88},
\* 16 and 96 are Caution.
C2_BoundaryAmended ==
    /\ (IsClassifierCall /\ CallValue \in {CallRange.min, CallRange.max})
          => /\ CallClass # "Extrapolation"
             /\ CallClass = "Caution" <=>
                   (CallValue < CallRange.p1 \/ CallValue > CallRange.p99)
    /\ (IsClassifierCall /\ CallValue \in {CallRange.p1, CallRange.p99})
          => CallClass = "None"
    /\ (fn = "range_flag" /\ arg \in {<<F(160), "age">>, <<F(960), "age">>})
          => ret = "yellow"

C2_Witness == fn = "range_flag" /\ arg = <<F(160), "age">> /\ ret = "yellow"

\* the reference sum of the specification, with its reference coefficients,
\* for seven finite values o
RefSum(o) ==
    5706245
    + FMul(-116444, o[1]).v
    + FMul(734351, o[2]).v
    + FMul(5742, o[3]).v
    + FMul(-208413, o[4]).v
    + FMul(-1470830, o[5]).v
    + FMul(-41931, o[6]).v
    + FMul(-166805, o[7]).v

AllFinite(o) == \A i \in 1..7 : IsFinite(o[i])
IsPrediction == fn \in {"predict_probability", "cloud_prediction"}

\* C3: for every finite observation the linear predictor of predict_probability
\* (final, static) and the logit of cloud equal the reference sum
\* B0 + B_AGE*age + B_GCSP*gcsp + B_VOL*volume + B_IVH*ivh + B_VENT*vent +
\* B_MLS*mls + B_GLU*glu, each weight on its own field; for
\* (67, 6, 40.0, 2, 0, 8.0, 9.0) it is 0.286764.
C3_LinearPredictor ==
    /\ (IsPrediction /\ AllFinite(arg)) => ret[2] = F(RefSum(arg))
    /\ (IsPrediction /\ arg = <<F(670), F(60), F(400), F(20), F(0), F(80), F(90)>>)
          => ret[2] = F(286764)

C3_Witness ==
    /\ fn = "predict_probability"
    /\ arg = <<F(670), F(10), F(25), F(0), F(10), F(5), F(94)>>
    /\ IsFinite(ret[2])

\* C4 as stated: no path from a linear predictor to a probability ends in a
\* numeric fault, whatever the inputs: when e^(-x) overflows the result is 0.0
\* for x < 0 and 1.0 for x >= 0.
C4_NoNumericFault ==
    /\ fn = "sigmoid" => ret.k # "OverflowError"
    /\ IsPrediction => ret[1].k # "OverflowError"
    /\ (IsPrediction /\ IsFinite(ret[2]) /\ -ret[2].v > EXP_MAX)
          => ret[1] = (IF ret[2].v < 0 THEN F(0) ELSE F(ONE))

\* C5: for every finite x, sigmoid(x) lies in [0, 1], sigmoid(0) = 0.5, and of
\* two successive calls the one with the larger argument returns the larger or
\* equal value, also across the overflow threshold.
C5_SigmoidShape ==
    [][(fn' = "sigmoid" /\ IsFinite(arg'[1]))
         => /\ IsFinite(ret')
            /\ 0 <= ret'.v /\ ret'.v <= ONE
            /\ arg'[1].v = 0 => 2 * ret'.v = ONE
            /\ (fn = "sigmoid" /\ IsFinite(arg[1]) /\ arg[1].v <= arg'[1].v)
                  => ret.v <= ret'.v
            /\ (fn = "sigmoid" /\ IsFinite(arg[1]) /\ arg[1].v >= arg'[1].v)
                  => ret.v >= ret'.v]_vars

\* the guarded branch: e^(-x) overflows just below -709.782712
C5_Witness == fn = "sigmoid" /\ arg = <<F(-709782713)>> /\ ret = F(0)

\* C6 as stated: a NaN or infinite observation field is rejected: prediction
\* does not return a NaN probability and classification does not return
\* "no flag" for it.
C6_NonFiniteRejected ==
    /\ (IsPrediction /\ ~AllFinite(arg)) => ~IsFloat(ret[1])
    /\ (fn = "range_flag" /\ ~IsFinite(arg[1])) => ret # "None"
    /\ (fn = "warn_out_of_range" /\ ~IsFinite(arg[2])) => ret # "None"

\* whether the last run classified the seven values: every run of final and
\* cloud, and the interactive runs of static
Classified == ~publication_view

\* whether the tables g of script a hold a complete range for field i
HasRange(a, g, i) ==
    IF a = "cloud"
    THEN /\ NAMES[i] \in DOMAIN g.RANGES
         /\ {"min", "max", "p1", "p99"} \subseteq DOMAIN g.RANGES[NAMES[i]]
    ELSE KEYS[i] \in DOMAIN g.DEV_MINMAX

\* that range
FieldRange(a, g, i) ==
    IF a = "cloud" THEN g.RANGES[NAMES[i]] ELSE ReferenceRange(g, KEYS[i])

\* C7: each of the seven field keys the scripts pass to the classifier has a
\* complete range (min, max, p1, p99) in the tables, and no run fails for
\* missing reference data.
C7_CompleteReferenceData ==
    /\ \A i \in 1..7 : HasRange(app, G, i)
    /\ out.err # "KeyError"
    /\ \A j \in 1..Len(warns) : warns[j][1] # "KeyError"

\* a run that classified a ventricular enlargement, the field without a
\* DEV_P1P99 entry
C7_Witness ==
    /\ app = "final"
    /\ inp[5] = F(10)
    /\ out.err = "None"
    /\ \E j \in 1..Len(warns) : warns[j][2] = "glu"

\* C8: two successive calls of predict_probability with the same seven inputs
\* return the same (probability, linear predictor); the result is the one the
\* constant coefficients give, and a call changes nothing a later call reads.
C8_PredictIdempotent ==
    [][fn' = "predict_probability"
         => /\ (fn = "predict_probability" /\ arg' = arg) => ret' = ret
            /\ ret' = predict_probability(Globals(app), arg'[1], arg'[2], arg'[3],
                                          arg'[4], arg'[5], arg'[6], arg'[7])
            /\ G' = G
            /\ session_state' = session_state]_vars

\* a call whose exponential overflowed and took the guarded branch
C8_Witness ==
    /\ fn = "predict_probability"
    /\ arg = <<F(BigAge), F(60), F(400), F(20), F(0), F(80), F(90)>>
    /\ ret[1] = F(0)

\* the flag of field i of the last run, from its value and its range alone
OwnFlag(i) ==
    LET c == Classify(Micro(inp[i].v), FieldRange(app, G, i))
    IN  IF app = "cloud" THEN LevelOf(c) ELSE FlagOf(c)

\* the fields flagged, in the scripts' order of the fields
RECURSIVE OwnWarns(_)
OwnWarns(i) ==
    IF i = 0 THEN <<>>
    ELSE IF OwnFlag(i) = "None" THEN OwnWarns(i - 1)
    ELSE Append(OwnWarns(i - 1), <<OwnFlag(i), WidgetKeys(app)[i]>>)

\* C9: in every run the linear predictor and the probability are those of the
\* seven values alone, whatever warnings the run rendered and whether or not
\* it classified; the coefficients and tables are as written; each field's
\* flag is the one its own value and range give.
C9_ClassifierPredictorIndependent ==
    /\ out.err = "None"
    /\ out.lp = F(RefSum(inp))
    /\ out.p = Recip1p(math_exp(FNeg(out.lp)))
    /\ G = Globals(app)
    /\ Classified => warns = OwnWarns(7)
    /\ ~Classified => warns = <<>>

\* a run with three flagged fields
C9_Witness == app = "final" /\ Len(warns) = 3 /\ out.err = "None" /\ IsFinite(out.p)

\* min <= p1 <= p99 <= max
Ordered(r) == r.min <= r.p1 /\ r.p1 <= r.p99 /\ r.p99 <= r.max

\* C10: every range the classifier uses, in the tables of every script and
\* with the fallback (min, max) for a field without a percentile entry, has
\* min <= p1 <= p99 <= max.
C10_RangesOrdered ==
    /\ \A i \in 1..7 : HasRange(app, G, i) => Ordered(FieldRange(app, G, i))
    /\ app = "cloud" => \A n \in DOMAIN G.RANGES : Ordered(G.RANGES[n])
    /\ app # "cloud" => \A k \in DOMAIN G.DEV_MINMAX : Ordered(ReferenceRange(G, k))

\* the fallback range of "vent" was used by a run
C10_Witness ==
    /\ app = "static"
    /\ Classified
    /\ "vent" \notin DOMAIN G.DEV_P1P99
    /\ inp[5] = F(10)

\* the place of a band in its scheme's order
Rank(b) ==
    CASE b \in {"Low", "lower"} -> 1
      [] b \in {"Intermediate", "middle"} -> 2
      [] b \in {"High", "higher"} -> 3
      [] OTHER -> 0

\* the band the two schemes give a probability v (unit 0.0001)
Band20_50(v) == IF v < 2000 THEN "Low" ELSE IF v < 5000 THEN "Intermediate" ELSE "High"
Band40_70(v) == IF v < 4000 THEN "lower" ELSE IF v < 7000 THEN "middle" ELSE "higher"

IsBandCall(f, a) == f \in {"risk_band", "cloud_band"} /\ IsFinite(a[1]) /\ 0 <= a[1].v /\ a[1].v <= ONE

\* C11: for every p in [0, 1] the labeler returns exactly one of three bands:
\* risk_band gives Low iff p < 0.20, Intermediate iff 0.20 <= p < 0.50, High
\* iff p >= 0.50; the cloud script gives lower iff p < 0.40, middle iff
\* 0.40 <= p < 0.70, higher iff p >= 0.70; and of two successive calls the one
\* with the larger p never returns the lower band.
C11_RiskBands ==
    [][IsBandCall(fn', arg')
         => /\ fn' = "risk_band" => ret' = Band20_50(arg'[1].v)
            /\ fn' = "cloud_band" => ret' = Band40_70(arg'[1].v)
            /\ Rank(ret') \in 1..3
            /\ (IsBandCall(fn, arg) /\ arg[1].v <= arg'[1].v) => Rank(ret) <= Rank(ret')
            /\ (IsBandCall(fn, arg) /\ arg[1].v >= arg'[1].v) => Rank(ret) >= Rank(ret')]_vars

\* a probability of exactly 0.20 is Intermediate
C11_Witness == fn = "risk_band" /\ arg = <<F(2000)>> /\ ret = "Intermediate"

\* a run of static that followed a flip of the publication toggle
ViewSwitched == app = "static" /\ publication_view' # publication_view

\* C12 as stated: in static, whenever the view is switched, in either
\* direction and after any edits and earlier switches, the seven values of the
\* prediction stay the ones last entered and the probability shown stays the
\* same; a publication run renders no range warnings.
C12_ViewSwitchKeepsValues ==
    [][/\ ViewSwitched => (inp' = inp /\ out'.p = out.p /\ out'.lp = out.lp)
       /\ (app = "static" /\ publication_view') => warns' = <<>>]_vars

====
